---- MODULE Spec2Model ----
(***************************************************************************)
(* The client of the securefix handoff protocol (src/client.ts).           *)
(*                                                                         *)
(* One run of `action` is a sequence of steps separated by the collabora-  *)
(* tor calls it awaits and the file-system calls it makes.  The state of a *)
(* run is kept per run id, so that runs can share the working directory    *)
(* (disk), the artifact storage and the label namespace of the server      *)
(* repository.                                                             *)
(*                                                                         *)
(* Collaborators: git's listing is any duplicate-free list of paths, the   *)
(* untracked files of the working directory among them when rootDir is     *)
(* empty;                                                                  *)
(* newName returns any name; uploadArtifact, githubAppToken.create and     *)
(* issues.createLabel either succeed or fail; hasExpired answers either    *)
(* way; githubAppToken.revoke returns (contract: revoke(token) -> void).   *)
(* The inputs of a run are the parsed Inputs value (lines 60-118).         *)
(***************************************************************************)
EXTENDS Integers, Sequences, FiniteSets, TLC

VARIABLES inputs, run, disk, artifacts, labels

vars == <<inputs, run, disk, artifacts, labels>>

-----------------------------------------------------------------------------
(* Bounds *)

\* number of distinct paths git and the allow-list range over
MaxPaths == 2

\* number of distinct names the name generator can return
MaxNames == 2

AllPaths == <<"a.txt", "b.txt", "c.txt", "d.txt", "e.txt">>
Paths == {AllPaths[i] : i \in 1..MaxPaths}

AllNames == <<"securefix-1-aa", "securefix-1-bb", "securefix-2-cc", "securefix-2-dd",
              "securefix-3-ee">>
Names == {AllNames[i] : i \in 1..MaxNames}

Runs == {"r1", "r2"}

RootDirs == {"", "sub"}

\* duplicate-free sequences over S: the iteration order of a JavaScript Set
NoDupSeqs(S) ==
  {s \in UNION {[1..n -> S] : n \in 0..Cardinality(S)} :
     \A i, j \in DOMAIN s : i /= j => s[i] /= s[j]}

Range(s) == {s[i] : i \in DOMAIN s}

\* optional / nullable values: absent is <<>>, a present value v is <<v>>
None == <<>>
Some(v) == <<v>>
IsSome(o) == o /= None

-----------------------------------------------------------------------------
(* PullRequest (lines 24-43) and the request validator (lines 264-291) *)

Strs == {"", "x"}
Lists == {<<>>, <<"x">>}
AutomergeMethods == {"", "merge", "squash", "rebase", "bogus"}
Projects == {None, Some([number |-> 0, owner |-> ""]), Some([number |-> 1, owner |-> "o"])}
Milestones == {None, Some(0), Some(3)}

PullRequest ==
  [title : Strs, body : Strs, base : Strs, labels : Lists, assignees : Lists,
   reviewers : Lists, team_reviewers : Lists, draft : BOOLEAN, comment : Strs,
   automerge_method : {None} \cup {Some(m) : m \in AutomergeMethods},
   project : Projects, milestone_number : Milestones]

EmptyPR ==
  [title |-> "", body |-> "", base |-> "", labels |-> <<>>, assignees |-> <<>>,
   reviewers |-> <<>>, team_reviewers |-> <<>>, draft |-> FALSE, comment |-> "",
   automerge_method |-> Some(""), project |-> None, milestone_number |-> Some(0)]

\* JavaScript truthiness of a string, of an optional string, of an optional number
TruthyStr(s) == s /= ""
TruthyOptStr(o) == IsSome(o) /\ o[1] /= ""
TruthyOptNum(o) == IsSome(o) /\ o[1] /= 0

\* inputs.pr.automerge_method ?? ""
OrEmpty(o) == IF IsSome(o) THEN o[1] ELSE ""

\* the messages of the errors of lines 266-268 and 289
AutomergeMethodError == "automerge_method must be one of \"\", \"merge\", \"squash\", or \"rebase\""
TitleRequiredError == "pull_request_title is required to create a pull request"

\* line 265 with "rebase" missing from the list
ValidateAutomergeMethodNoRebase(method) ==
  method \in {"", "merge", "squash"}

\* TRUE iff validateAutomergeMethod returns, FALSE iff it throws
ValidateAutomergeMethod(method) ==
  method \in {"", "merge", "squash", "rebase"}

\* lines 276-288 without the test of pr.comment
OtherFieldSetNoComment(pr) ==
  \/ TruthyStr(pr.base)
  \/ TruthyStr(pr.body)
  \/ Len(pr.labels) > 0
  \/ Len(pr.assignees) > 0
  \/ Len(pr.reviewers) > 0
  \/ Len(pr.team_reviewers) > 0
  \/ pr.draft
  \/ TruthyOptNum(pr.milestone_number)
  \/ IsSome(pr.project)
  \/ TruthyOptStr(pr.automerge_method)

\* the condition of the `if` of lines 276-288
OtherFieldSet(pr) ==
  \/ TruthyStr(pr.base)
  \/ TruthyStr(pr.body)
  \/ Len(pr.labels) > 0
  \/ Len(pr.assignees) > 0
  \/ Len(pr.reviewers) > 0
  \/ Len(pr.team_reviewers) > 0
  \/ pr.draft
  \/ TruthyStr(pr.comment)
  \/ TruthyOptNum(pr.milestone_number)
  \/ IsSome(pr.project)
  \/ TruthyOptStr(pr.automerge_method)

\* TRUE iff validatePR returns, FALSE iff it throws
ValidatePR(pr) ==
  IF pr.title /= "" THEN TRUE
  ELSE ~OtherFieldSet(pr)

-----------------------------------------------------------------------------
(* File names, path.join, getFiles (lines 209-237) *)

MetadataFile(name) == name \o ".json"
ManifestFile(name) == name \o "_files.txt"

\* path.join(rootDir, file) for a plain relative file name
Join(rootDir, file) == IF rootDir = "" THEN file ELSE rootDir \o "/" \o file

MapJoin(rootDir, fs) == [i \in DOMAIN fs |-> Join(rootDir, fs[i])]

\* the filter of lines 226-228 run over the change set instead of the allow-list
RECURSIVE FilterFixedOrder(_, _)
FilterFixedOrder(allow, fixed) ==
  IF fixed = <<>> THEN <<>>
  ELSE IF Head(fixed) \in {allow[i] : i \in DOMAIN allow}
       THEN <<Head(fixed)>> \o FilterFixedOrder(allow, Tail(fixed))
       ELSE FilterFixedOrder(allow, Tail(fixed))

\* [...inputs.files].filter(file => fixedFiles.has(file))
RECURSIVE Filter(_, _)
Filter(allow, fixed) ==
  IF allow = <<>> THEN <<>>
  ELSE IF Head(allow) \in Range(fixed)
       THEN <<Head(allow)>> \o Filter(Tail(allow), fixed)
       ELSE Filter(Tail(allow), fixed)

NoFiles == [changed_files_from_root_dir |-> None, changed_files |-> None]

\* the value getFiles returns
GetFiles(fixedFiles, rootDir, allow) ==
  IF Len(fixedFiles) = 0 THEN NoFiles
  ELSE IF Len(allow) = 0
       THEN [changed_files_from_root_dir |-> Some(fixedFiles),
             changed_files |-> Some(MapJoin(rootDir, fixedFiles))]
       ELSE LET filteredFiles == Filter(allow, fixedFiles) IN
            IF Len(filteredFiles) = 0 THEN NoFiles
            ELSE [changed_files_from_root_dir |-> Some(filteredFiles),
                  changed_files |-> Some(MapJoin(rootDir, filteredFiles))]

\* files.changed_files && files.changed_files.length > 0
HasChangedFiles(files) ==
  IsSome(files.changed_files) /\ Len(files.changed_files[1]) > 0

-----------------------------------------------------------------------------
(* The working directory *)

Exists(d, f) == f \in DOMAIN d

\* fs.writeFileSync(f, content)
WriteFile(d, f, content) == [g \in DOMAIN d \cup {f} |-> IF g = f THEN content ELSE d[g]]

\* fs.rmSync(f) of an existing file
RemoveFile(d, f) == [g \in DOMAIN d \ {f} |-> d[g]]

\* the document createMetadataFile serialises (lines 294-303)
MetadataValue(r, inp) ==
  [context |-> r,
   inputs |-> [repository |-> inp.repo, branch |-> inp.branch,
               commit_message |-> inp.commitMessage, root_dir |-> inp.rootDir,
               pull_request |-> inp.pr]]

\* Array.prototype.join
RECURSIVE ArrayJoin(_, _)
ArrayJoin(s, sep) ==
  IF s = <<>> THEN ""
  ELSE IF Len(s) = 1 THEN s[1]
  ELSE s[1] \o sep \o ArrayJoin(Tail(s), sep)

\* files.changed_files_from_root_dir.join("\n") + "\n"
ManifestValue(fromRoot) == ArrayJoin(fromRoot, "\n") \o "\n"

-----------------------------------------------------------------------------
(* Runs *)

\* the PR specs a run is started with: the empty one, a titled one, and for
\* every other field a titleless spec that sets just that field
RunPRs ==
  { EmptyPR,
    [EmptyPR EXCEPT !.title = "x", !.base = "x", !.automerge_method = Some("squash")],
    [EmptyPR EXCEPT !.title = "x", !.automerge_method = Some("bogus")],
    [EmptyPR EXCEPT !.automerge_method = Some("bogus")],
    [EmptyPR EXCEPT !.automerge_method = Some("merge")],
    [EmptyPR EXCEPT !.base = "x"],
    [EmptyPR EXCEPT !.body = "x"],
    [EmptyPR EXCEPT !.labels = <<"x">>],
    [EmptyPR EXCEPT !.assignees = <<"x">>],
    [EmptyPR EXCEPT !.reviewers = <<"x">>],
    [EmptyPR EXCEPT !.team_reviewers = <<"x">>],
    [EmptyPR EXCEPT !.draft = TRUE],
    [EmptyPR EXCEPT !.comment = "x"],
    [EmptyPR EXCEPT !.milestone_number = Some(3)],
    [EmptyPR EXCEPT !.project = Some([number |-> 1, owner |-> "o"])] }

\* Inputs (lines 46-57); appId, privateKey and serverRepository are fixed
InputsOver(prs) ==
  [rootDir : RootDirs, repo : {"", "o/r"}, branch : {"", "fix"},
   failIfChanges : BOOLEAN, files : NoDupSeqs(Paths), pr : prs,
   commitMessage : {"fix"}]

\* a run that has not started
FreshRun(pc) ==
  [pc |-> pc, outcome |-> "running", error |-> "none", failed |-> FALSE,
   artifactName |-> "", nameCalls |-> 0, gitCalls |-> 0,
   fixedFiles |-> <<>>, files |-> NoFiles,
   metadataWrites |-> 0, manifestWrites |-> 0, written |-> {}, removed |-> {},
   uploadCalls |-> 0, uploaded |-> FALSE,
   tokenCalls |-> 0, token |-> None, labelCalls |-> 0, labelCreated |-> FALSE,
   caught |-> "none", hasExpired |-> None, revoked |-> <<>>, messages |-> <<>>]

\* the inputs of a run that is never started
IdleInputs ==
  [rootDir |-> "", repo |-> "", branch |-> "", failIfChanges |-> FALSE,
   files |-> <<>>, pr |-> EmptyPR, commitMessage |-> "fix"]

\* one run, r1, in an empty working directory
Init ==
  /\ \E i \in InputsOver(RunPRs) :
       inputs = [r \in Runs |-> IF r = "r1" THEN i ELSE IdleInputs]
  /\ run = [r \in Runs |-> IF r = "r1" THEN FreshRun("validateAutomergeMethod")
                           ELSE FreshRun("off")]
  /\ disk = <<>>
  /\ artifacts = {}
  /\ labels = {}

\* `throw e` out of action, and `return` from action
Throw(s, e) == [s EXCEPT !.pc = "done", !.outcome = "threw", !.error = e]
Return(s) == [s EXCEPT !.pc = "done", !.outcome = "returned"]

\* line 119
ValidateAutomergeStep(r) ==
  /\ run[r].pc = "validateAutomergeMethod"
  /\ run' = [run EXCEPT ![r] =
       IF ValidateAutomergeMethod(OrEmpty(inputs[r].pr.automerge_method))
       THEN [@ EXCEPT !.pc = "validatePR"]
       ELSE Throw(@, AutomergeMethodError)]
  /\ UNCHANGED <<inputs, disk, artifacts, labels>>

\* line 120 with the result of validatePR ignored
ValidatePRStepNoThrow(r) ==
  /\ run[r].pc = "validatePR"
  /\ run' = [run EXCEPT ![r] = [@ EXCEPT !.pc = "newName"]]
  /\ UNCHANGED <<inputs, disk, artifacts, labels>>

\* line 120
ValidatePRStep(r) ==
  /\ run[r].pc = "validatePR"
  /\ run' = [run EXCEPT ![r] =
       IF ValidatePR(inputs[r].pr)
       THEN [@ EXCEPT !.pc = "newName"]
       ELSE Throw(@, TitleRequiredError)]
  /\ UNCHANGED <<inputs, disk, artifacts, labels>>

\* lines 122-125: the name generator returns some name
GenerateName(r) ==
  /\ run[r].pc = "newName"
  /\ \E n \in Names :
       run' = [run EXCEPT ![r] =
         [@ EXCEPT !.artifactName = n, !.nameCalls = @ + 1, !.pc = "git"]]
  /\ UNCHANGED <<inputs, disk, artifacts, labels>>

\* the files of the working directory that `git ls-files --others` run in
\* rootDir can list as untracked: the process writes its files to its working
\* directory, which is where git runs unless rootDir is set
Untracked(d, rootDir) == IF rootDir = "" THEN DOMAIN d ELSE {}

\* lines 127-139 without the early return of lines 140-143
ListChangesNoReturn(r) ==
  /\ run[r].pc = "git"
  /\ \E fixed \in NoDupSeqs(Paths \cup Untracked(disk, inputs[r].rootDir)) :
       run' = [run EXCEPT ![r] =
         [@ EXCEPT !.gitCalls = @ + 1, !.fixedFiles = fixed, !.pc = "getFiles"]]
  /\ UNCHANGED <<inputs, disk, artifacts, labels>>

\* lines 127-143: git lists the changed files; an empty list ends the run
ListChanges(r) ==
  /\ run[r].pc = "git"
  /\ \E fixed \in NoDupSeqs(Paths \cup Untracked(disk, inputs[r].rootDir)) :
       run' = [run EXCEPT ![r] =
         IF Len(fixed) = 0
         THEN Return([@ EXCEPT !.gitCalls = @ + 1, !.fixedFiles = fixed,
                               !.messages = Append(@, "No changes")])
         ELSE [@ EXCEPT !.gitCalls = @ + 1, !.fixedFiles = fixed, !.pc = "getFiles"]]
  /\ UNCHANGED <<inputs, disk, artifacts, labels>>

\* line 145: getFiles, with the createMetadataFile of line 219
GetFilesStep(r) ==
  /\ run[r].pc = "getFiles"
  /\ LET s == run[r]
         files == GetFiles(s.fixedFiles, inputs[r].rootDir, inputs[r].files)
         wrote == Len(s.fixedFiles) /= 0
     IN  /\ run' = [run EXCEPT ![r] =
               [@ EXCEPT !.files = files,
                         !.metadataWrites = IF wrote THEN @ + 1 ELSE @,
                         !.written = IF wrote
                                     THEN @ \cup {MetadataFile(s.artifactName)} ELSE @,
                         !.messages = IF files = NoFiles
                                      THEN Append(@, "No changes") ELSE @,
                         !.pc = "createMetadataFile"]]
         /\ disk' = IF wrote
                    THEN WriteFile(disk, MetadataFile(s.artifactName),
                                   MetadataValue(r, inputs[r]))
                    ELSE disk
  /\ UNCHANGED <<inputs, artifacts, labels>>

\* line 147
CreateMetadataStep(r) ==
  /\ run[r].pc = "createMetadataFile"
  /\ run' = [run EXCEPT ![r] =
       [@ EXCEPT !.metadataWrites = @ + 1,
                 !.written = @ \cup {MetadataFile(run[r].artifactName)},
                 !.pc = "writeManifest"]]
  /\ disk' = WriteFile(disk, MetadataFile(run[r].artifactName),
                       MetadataValue(r, inputs[r]))
  /\ UNCHANGED <<inputs, artifacts, labels>>

\* lines 148-164 with the manifest written from files.changed_files
WriteManifestStepResolved(r) ==
  /\ run[r].pc = "writeManifest"
  /\ LET s == run[r]
         writes == IsSome(s.files.changed_files)
                   /\ IsSome(s.files.changed_files_from_root_dir)
     IN  /\ run' = [run EXCEPT ![r] =
               [@ EXCEPT !.manifestWrites = IF writes THEN @ + 1 ELSE @,
                         !.written = IF writes
                                     THEN @ \cup {ManifestFile(s.artifactName)} ELSE @,
                         !.pc = IF HasChangedFiles(s.files)
                                THEN "uploadArtifact" ELSE "rmMetadata"]]
         /\ disk' = IF writes
                    THEN WriteFile(disk, ManifestFile(s.artifactName),
                                   ManifestValue(s.files.changed_files[1]))
                    ELSE disk
  /\ UNCHANGED <<inputs, artifacts, labels>>

\* lines 148-164: the outputs, the manifest, and the test that guards the upload
WriteManifestStep(r) ==
  /\ run[r].pc = "writeManifest"
  /\ LET s == run[r]
         writes == IsSome(s.files.changed_files)
                   /\ IsSome(s.files.changed_files_from_root_dir)
     IN  /\ run' = [run EXCEPT ![r] =
               [@ EXCEPT !.manifestWrites = IF writes THEN @ + 1 ELSE @,
                         !.written = IF writes
                                     THEN @ \cup {ManifestFile(s.artifactName)} ELSE @,
                         !.pc = IF HasChangedFiles(s.files)
                                THEN "uploadArtifact" ELSE "rmMetadata"]]
         /\ disk' = IF writes
                    THEN WriteFile(disk, ManifestFile(s.artifactName),
                                   ManifestValue(s.files.changed_files_from_root_dir[1]))
                    ELSE disk
  /\ UNCHANGED <<inputs, artifacts, labels>>

\* the file list of lines 169-172
UploadList(s) ==
  s.files.changed_files[1]
    \o <<MetadataFile(s.artifactName), ManifestFile(s.artifactName)>>

\* lines 166-174 with a rejected upload caught and ignored
UploadStepSwallow(r) ==
  /\ run[r].pc = "uploadArtifact"
  /\ \E ok \in BOOLEAN :
       /\ run' = [run EXCEPT ![r] =
            [@ EXCEPT !.uploadCalls = @ + 1, !.uploaded = ok, !.pc = "rmManifest"]]
       /\ artifacts' = IF ok
                       THEN artifacts \cup
                              {[name |-> run[r].artifactName,
                                files |-> UploadList(run[r]), by |-> r]}
                       ELSE artifacts
  /\ UNCHANGED <<inputs, disk, labels>>

\* lines 166-174: uploadArtifact resolves or rejects
UploadStep(r) ==
  /\ run[r].pc = "uploadArtifact"
  /\ \E ok \in BOOLEAN :
       /\ run' = [run EXCEPT ![r] =
            IF ok
            THEN [@ EXCEPT !.uploadCalls = @ + 1, !.uploaded = TRUE,
                           !.pc = "rmManifest"]
            ELSE Throw([@ EXCEPT !.uploadCalls = @ + 1], "uploadArtifact")]
       /\ artifacts' = IF ok
                       THEN artifacts \cup
                              {[name |-> run[r].artifactName,
                                files |-> UploadList(run[r]), by |-> r]}
                       ELSE artifacts
  /\ UNCHANGED <<inputs, disk, labels>>

\* fs.rmSync(f): removes f, or throws when there is no such file
RmSync(r, f, next) ==
  IF Exists(disk, f)
  THEN /\ disk' = RemoveFile(disk, f)
       /\ run' = [run EXCEPT ![r] =
            [@ EXCEPT !.removed = @ \cup {f}, !.pc = next]]
  ELSE /\ disk' = disk
       /\ run' = [run EXCEPT ![r] = Throw(@, "ENOENT")]

\* line 175
RemoveManifestStep(r) ==
  /\ run[r].pc = "rmManifest"
  /\ RmSync(r, ManifestFile(run[r].artifactName), "rmMetadata")
  /\ UNCHANGED <<inputs, artifacts, labels>>

\* line 177 left out
RemoveMetadataStepSkip(r) ==
  /\ run[r].pc = "rmMetadata"
  /\ run' = [run EXCEPT ![r] = [@ EXCEPT !.pc = "createToken"]]
  /\ UNCHANGED <<inputs, disk, artifacts, labels>>

\* line 177
RemoveMetadataStep(r) ==
  /\ run[r].pc = "rmMetadata"
  /\ RmSync(r, MetadataFile(run[r].artifactName), "createToken")
  /\ UNCHANGED <<inputs, artifacts, labels>>

\* line 244: githubAppToken.create resolves with a token or rejects
CreateTokenStep(r) ==
  /\ run[r].pc = "createToken"
  /\ \E ok \in BOOLEAN :
       run' = [run EXCEPT ![r] =
         IF ok
         THEN [@ EXCEPT !.tokenCalls = @ + 1, !.token = Some(<<r, run[r].tokenCalls + 1>>),
                        !.pc = "createLabel"]
         ELSE Throw([@ EXCEPT !.tokenCalls = @ + 1], "githubAppToken.create")]
  /\ UNCHANGED <<inputs, disk, artifacts, labels>>

\* lines 246-252 with the label named by a second call of the name generator
CreateLabelStepFreshName(r) ==
  /\ run[r].pc = "createLabel"
  /\ \E ok \in BOOLEAN, n \in Names :
       /\ run' = [run EXCEPT ![r] =
            IF ok
            THEN [@ EXCEPT !.labelCalls = @ + 1, !.labelCreated = TRUE,
                           !.pc = "report"]
            ELSE [@ EXCEPT !.labelCalls = @ + 1, !.caught = "createLabel",
                           !.pc = "catch"]]
       /\ labels' = IF ok THEN labels \cup {[name |-> n, by |-> r]} ELSE labels
  /\ UNCHANGED <<inputs, disk, artifacts>>

\* lines 246-252 followed by an unconditional revoke of the token
CreateLabelStepThenRevoke(r) ==
  /\ run[r].pc = "createLabel"
  /\ \E ok \in BOOLEAN :
       /\ run' = [run EXCEPT ![r] =
            IF ok
            THEN [@ EXCEPT !.labelCalls = @ + 1, !.labelCreated = TRUE,
                           !.revoked = Append(@, run[r].token[1]), !.pc = "report"]
            ELSE [@ EXCEPT !.labelCalls = @ + 1, !.caught = "createLabel",
                           !.pc = "catch"]]
       /\ labels' = IF ok
                    THEN labels \cup {[name |-> run[r].artifactName, by |-> r]}
                    ELSE labels
  /\ UNCHANGED <<inputs, disk, artifacts>>

\* lines 246-252: issues.createLabel resolves or rejects
CreateLabelStep(r) ==
  /\ run[r].pc = "createLabel"
  /\ \E ok \in BOOLEAN :
       /\ run' = [run EXCEPT ![r] =
            IF ok
            THEN [@ EXCEPT !.labelCalls = @ + 1, !.labelCreated = TRUE,
                           !.pc = "report"]
            ELSE [@ EXCEPT !.labelCalls = @ + 1, !.caught = "createLabel",
                           !.pc = "catch"]]
       /\ labels' = IF ok
                    THEN labels \cup {[name |-> run[r].artifactName, by |-> r]}
                    ELSE labels
  /\ UNCHANGED <<inputs, disk, artifacts>>

\* lines 253-260 with the caught error swallowed whatever hasExpired answers
CatchStepSwallow(r) ==
  /\ run[r].pc = "catch"
  /\ \E expired \in BOOLEAN :
       run' = [run EXCEPT ![r] =
         [@ EXCEPT !.hasExpired = Some(expired),
                   !.messages = Append(@, "GitHub App token has already expired"),
                   !.pc = "report"]]
  /\ UNCHANGED <<inputs, disk, artifacts, labels>>

\* lines 253-257 with the early return of line 256 missing
CatchStepNoReturn(r) ==
  /\ run[r].pc = "catch"
  /\ \E expired \in BOOLEAN :
       run' = [run EXCEPT ![r] =
         [@ EXCEPT !.hasExpired = Some(expired),
                   !.messages = Append(@, "Revoking GitHub App token"),
                   !.pc = "revoke"]]
  /\ UNCHANGED <<inputs, disk, artifacts, labels>>

\* lines 253-257: the catch clause asks hasExpired(token.expiresAt)
CatchStep(r) ==
  /\ run[r].pc = "catch"
  /\ \E expired \in BOOLEAN :
       run' = [run EXCEPT ![r] =
         IF expired
         THEN [@ EXCEPT !.hasExpired = Some(TRUE),
                        !.messages = Append(@, "GitHub App token has already expired"),
                        !.pc = "report"]
         ELSE [@ EXCEPT !.hasExpired = Some(FALSE),
                        !.messages = Append(@, "Revoking GitHub App token"),
                        !.pc = "revoke"]]
  /\ UNCHANGED <<inputs, disk, artifacts, labels>>

\* lines 259-260 with the `throw error` of line 260 missing
RevokeStepNoRethrow(r) ==
  /\ run[r].pc = "revoke"
  /\ run' = [run EXCEPT ![r] =
       [@ EXCEPT !.revoked = Append(@, run[r].token[1]), !.pc = "report"]]
  /\ UNCHANGED <<inputs, disk, artifacts, labels>>

\* lines 259-260: revoke the token, then rethrow the caught error
RevokeStep(r) ==
  /\ run[r].pc = "revoke"
  /\ run' = [run EXCEPT ![r] =
       Throw([@ EXCEPT !.revoked = Append(@, run[r].token[1])], run[r].caught)]
  /\ UNCHANGED <<inputs, disk, artifacts, labels>>

\* line 192 with || in place of &&
ShouldFailEitherMissing(inp) ==
  inp.failIfChanges \/ (~TruthyStr(inp.repo) \/ ~TruthyStr(inp.branch))

\* inputs.failIfChanges || (!inputs.repo && !inputs.branch)
ShouldFail(inp) ==
  inp.failIfChanges \/ (~TruthyStr(inp.repo) /\ ~TruthyStr(inp.branch))

\* lines 191-201
ReportStep(r) ==
  /\ run[r].pc = "report"
  /\ run' = [run EXCEPT ![r] =
       IF HasChangedFiles(@.files)
       THEN Return([@ EXCEPT !.failed = ShouldFail(inputs[r]),
                             !.messages = Append(@, "Changes detected. A commit will be pushed")])
       ELSE Return(@)]
  /\ UNCHANGED <<inputs, disk, artifacts, labels>>

Next ==
  \E r \in Runs :
    \/ ValidateAutomergeStep(r)
    \/ ValidatePRStep(r)
    \/ GenerateName(r)
    \/ ListChanges(r)
    \/ GetFilesStep(r)
    \/ CreateMetadataStep(r)
    \/ WriteManifestStep(r)
    \/ UploadStep(r)
    \/ RemoveManifestStep(r)
    \/ RemoveMetadataStep(r)
    \/ CreateTokenStep(r)
    \/ CreateLabelStep(r)
    \/ CatchStep(r)
    \/ RevokeStep(r)
    \/ ReportStep(r)

Spec == Init /\ [][Next]_vars

\* validatePR alone, applied to every PullRequest value
InitPR ==
  /\ \E pr \in PullRequest :
       inputs = [r \in Runs |-> IF r = "r1" THEN [IdleInputs EXCEPT !.pr = pr]
                                ELSE IdleInputs]
  /\ run = [r \in Runs |-> IF r = "r1" THEN FreshRun("validatePR") ELSE FreshRun("off")]
  /\ disk = <<>>
  /\ artifacts = {}
  /\ labels = {}

NextPR == \E r \in Runs : ValidatePRStep(r)

SpecPR == InitPR /\ [][NextPR]_vars

\* validateAutomergeMethod alone, applied to every automerge method
InitAM ==
  /\ \E pr \in PullRequest :
       inputs = [r \in Runs |-> IF r = "r1" THEN [IdleInputs EXCEPT !.pr = pr]
                                ELSE IdleInputs]
  /\ run = [r \in Runs |-> IF r = "r1" THEN FreshRun("validateAutomergeMethod")
                           ELSE FreshRun("off")]
  /\ disk = <<>>
  /\ artifacts = {}
  /\ labels = {}

NextAM == \E r \in Runs : ValidateAutomergeStep(r)

SpecAM == InitAM /\ [][NextAM]_vars

\* two runs at once in one working directory, against one server repository
ConcInputs ==
  {[IdleInputs EXCEPT !.rootDir = d, !.files = f] :
     d \in RootDirs, f \in {<<>>, <<AllPaths[1]>>}}

InitConc ==
  /\ \E i \in ConcInputs :
       inputs = [r \in Runs |-> IF r = "r1" THEN i ELSE IdleInputs]
  /\ run = [r \in Runs |-> FreshRun("validateAutomergeMethod")]
  /\ disk = <<>>
  /\ artifacts = {}
  /\ labels = {}

SpecConc == InitConc /\ [][Next]_vars

-----------------------------------------------------------------------------
(* Vocabulary of the properties *)

Done(r) == run[r].pc = "done"
Threw(r, e) == Done(r) /\ run[r].outcome = "threw" /\ run[r].error = e
Returned(r) == Done(r) /\ run[r].outcome = "returned" /\ run[r].error = "none"

\* git has answered run r
Listed(r) == run[r].gitCalls > 0

\* run r has got past getFiles
Filtered(r) ==
  run[r].pc \notin {"off", "validateAutomergeMethod", "validatePR", "newName", "git",
                    "getFiles"}
  /\ Len(run[r].fixedFiles) > 0

\* the set of changed paths that pass the allow-list of run r
FilteredSet(r) ==
  IF Len(inputs[r].files) = 0 THEN Range(run[r].fixedFiles)
  ELSE Range(inputs[r].files) \cap Range(run[r].fixedFiles)

LabelFailed(r) == run[r].labelCalls > 0 /\ run[r].caught /= "none"
UploadFailed(r) == run[r].uploadCalls > 0 /\ ~run[r].uploaded

\* run r made no call to artifact storage, the credential issuer or the label API
NoSignalEffects(r) ==
  /\ run[r].uploadCalls = 0
  /\ run[r].tokenCalls = 0
  /\ run[r].labelCalls = 0
  /\ \A a \in artifacts : a.by /= r
  /\ \A l \in labels : l.by /= r

\* run r wrote no file
NoWrites(r) == run[r].metadataWrites = 0 /\ run[r].manifestWrites = 0

\* every field of pr but the title is empty or default
OthersEmptyOrDefault(pr) ==
  /\ pr.base = "" /\ pr.body = "" /\ pr.comment = ""
  /\ pr.automerge_method \in {None, Some("")}
  /\ pr.labels = <<>> /\ pr.assignees = <<>>
  /\ pr.reviewers = <<>> /\ pr.team_reviewers = <<>>
  /\ pr.draft = FALSE
  /\ pr.milestone_number \in {None, Some(0)}
  /\ pr.project = None

-----------------------------------------------------------------------------
(* Properties *)

\* C1: a run whose change set is non-empty but holds no element of the
\* non-empty allow-list uploads nothing, requests no credential and creates
\* no label.
C1_NoOpWhenFilterEmpty ==
  \A r \in Runs :
    (Listed(r) /\ Len(run[r].fixedFiles) > 0 /\ Len(inputs[r].files) > 0
       /\ FilteredSet(r) = {})
      => NoSignalEffects(r)

C3_ExpiredNoRevoke ==
  \A r \in Runs :
    (LabelFailed(r) /\ run[r].hasExpired = Some(TRUE))
      => /\ run[r].revoked = <<>>
         /\ run[r].pc = "report" \/ Returned(r)

C3_Witness ==
  \E r \in Runs :
    /\ LabelFailed(r) /\ run[r].hasExpired = Some(TRUE)
    /\ Returned(r)

\* C4: a run whose label creation succeeded never calls revoke; revoke is
\* called only after a failed label creation.
C4_NoRevokeOnSuccess ==
  \A r \in Runs :
    /\ run[r].labelCreated => run[r].revoked = <<>>
    /\ run[r].revoked /= <<>> => LabelFailed(r)

C4_Witness ==
  \E r \in Runs :
    run[r].labelCreated /\ Done(r) /\ run[r].token /= None /\ run[r].revoked = <<>>

\* C5: once the metadata file and the manifest have been written, neither
\* exists on disk when the run has terminated, whatever the upload did.
C5_TempFilesRemoved ==
  \A r \in Runs :
    (Done(r) /\ run[r].metadataWrites > 0 /\ run[r].manifestWrites > 0)
      => /\ ~Exists(disk, MetadataFile(run[r].artifactName))
         /\ ~Exists(disk, ManifestFile(run[r].artifactName))

\* C6: with an automerge method outside "", "merge", "squash", "rebase", or an
\* empty title and some other field set, the run ends with an error once the
\* validation is over, and never generates a name, runs git, writes a file,
\* uploads, requests a credential or creates a label.
C6_ConfigErrorBeforeAnyCall ==
  \A r \in Runs :
    LET pr == inputs[r].pr IN
    (\/ OrEmpty(pr.automerge_method) \notin {"", "merge", "squash", "rebase"}
     \/ pr.title = "" /\ ~OthersEmptyOrDefault(pr))
      => /\ run[r].pc \in {"off", "validateAutomergeMethod", "validatePR"}
            \/ (Done(r) /\ run[r].outcome = "threw"
                /\ run[r].error \in {AutomergeMethodError, TitleRequiredError})
         /\ run[r].nameCalls = 0 /\ run[r].artifactName = ""
         /\ run[r].gitCalls = 0
         /\ NoWrites(r) /\ disk = <<>>
         /\ NoSignalEffects(r)

C6_Witness ==
  \E r \in Runs :
    /\ inputs[r].pr.title = "" /\ inputs[r].pr.base /= ""
    /\ Threw(r, TitleRequiredError)

\* C7: a run to which git reports an empty change set returns normally, not
\* marked failed, having written no file, uploaded nothing, requested no
\* credential and created no label.
C7_NoChangesNoEffects ==
  \A r \in Runs :
    (Listed(r) /\ run[r].fixedFiles = <<>>)
      => /\ Returned(r) /\ ~run[r].failed
         /\ NoWrites(r) /\ disk = <<>>
         /\ NoSignalEffects(r)

C7_Witness ==
  \E r \in Runs : Listed(r) /\ run[r].fixedFiles = <<>> /\ Returned(r)

\* C8: a terminated run with a non-empty filtered change set whose upload and
\* label creation both succeeded is marked failed iff failIfChanges is set or
\* repo and branch are both empty.
C8_FailedIffPolicy ==
  \A r \in Runs :
    (Done(r) /\ FilteredSet(r) /= {} /\ run[r].uploaded /\ run[r].labelCreated)
      => /\ Returned(r)
         /\ run[r].failed <=>
              (inputs[r].failIfChanges
                 \/ (inputs[r].repo = "" /\ inputs[r].branch = ""))

C8_Witness ==
  \E r \in Runs :
    /\ Done(r) /\ FilteredSet(r) /= {} /\ run[r].uploaded /\ run[r].labelCreated
    /\ ~inputs[r].failIfChanges
    /\ inputs[r].repo = "" /\ inputs[r].branch /= ""
    /\ ~run[r].failed

\* C9: when uploadArtifact fails the run ends by throwing the upload error,
\* and requests no credential and creates no label.
C9_UploadErrorPropagates ==
  \A r \in Runs :
    UploadFailed(r)
      => /\ Threw(r, "uploadArtifact")
         /\ run[r].tokenCalls = 0 /\ run[r].labelCalls = 0
         /\ \A l \in labels : l.by /= r

C9_Witness ==
  \E r \in Runs : UploadFailed(r) /\ Done(r)

\* C10: validatePR accepts every spec with a non-empty title; with an empty
\* title it accepts iff every other field is empty or default, and otherwise
\* throws the title-required error.
C10_ValidatePR ==
  \A r \in Runs :
    run[r].pc \notin {"off", "validatePR"}
      => LET pr == inputs[r].pr
             accept == pr.title /= "" \/ OthersEmptyOrDefault(pr)
         IN  /\ accept => run[r].pc = "newName" /\ run[r].outcome = "running"
             /\ ~accept => Threw(r, TitleRequiredError)

C10_Witness ==
  \E r \in Runs :
    /\ inputs[r].pr.title = ""
    /\ inputs[r].pr.milestone_number = None
    /\ inputs[r].pr.automerge_method = None
    /\ run[r].pc = "newName"

\* the allow-list entries of run r that are in its change set, in allow-list order
AllowedChanged(r) ==
  LET InChangeSet(p) == \E i \in DOMAIN run[r].fixedFiles : run[r].fixedFiles[i] = p
  IN  SelectSeq(inputs[r].files, InChangeSet)

\* C11: with a non-empty allow-list the filter returns exactly the allow-list
\* entries that are in the change set, in allow-list order (nothing when there
\* are none); with an empty allow-list it returns every element of the change
\* set; the workspace-resolved list has the same length and order, entry i
\* being join(rootDir, path i).
C11_FileFilter ==
  \A r \in Runs :
    Filtered(r) =>
      LET fromRoot == run[r].files.changed_files_from_root_dir
          resolved == run[r].files.changed_files
          expected == AllowedChanged(r)
      IN  /\ IsSome(fromRoot) <=> IsSome(resolved)
          /\ Len(inputs[r].files) > 0 =>
               IF expected = <<>> THEN fromRoot = None ELSE fromRoot = Some(expected)
          /\ Len(inputs[r].files) = 0 =>
               /\ IsSome(fromRoot)
               /\ Len(fromRoot[1]) = Len(run[r].fixedFiles)
               /\ Range(fromRoot[1]) = Range(run[r].fixedFiles)
          /\ IsSome(fromRoot) =>
               /\ Len(resolved[1]) = Len(fromRoot[1])
               /\ \A i \in DOMAIN fromRoot[1] :
                    resolved[1][i] =
                      IF inputs[r].rootDir = "" THEN fromRoot[1][i]
                      ELSE inputs[r].rootDir \o "/" \o fromRoot[1][i]

\* both orders differ, one allow-list entry is dropped, and the root is not empty
C11_Witness ==
  \E r \in Runs :
    /\ Filtered(r)
    /\ inputs[r].rootDir /= ""
    /\ Len(inputs[r].files) > Len(AllowedChanged(r))
    /\ run[r].files.changed_files_from_root_dir = Some(AllowedChanged(r))

\* C12: validateAutomergeMethod returns for "", "merge", "squash" and "rebase"
\* and throws its error for every other string; either way it changes nothing
\* but the control state of the run.
C12_ValidateAutomergeMethod ==
  \A r \in Runs :
    run[r].pc \notin {"off", "validateAutomergeMethod"}
      => LET m == OrEmpty(inputs[r].pr.automerge_method)
             valid == m = "" \/ m = "merge" \/ m = "squash" \/ m = "rebase"
         IN  /\ valid => run[r].pc = "validatePR" /\ run[r].outcome = "running"
             /\ ~valid => Threw(r, AutomergeMethodError)
             /\ [run[r] EXCEPT !.pc = "off", !.outcome = "running", !.error = "none"]
                  = FreshRun("off")
             /\ disk = <<>> /\ artifacts = {} /\ labels = {}

C12_Witness ==
  \E r \in Runs :
    /\ inputs[r].pr.automerge_method = Some("rebase")
    /\ run[r].pc = "validatePR"

\* the two temp files named after s
TempFilesOf(s) == {s \o ".json", s \o "_files.txt"}

\* C13: the name is generated at most once and, once git has been run, exactly
\* once; before it is generated nothing is listed, written, uploaded or
\* labelled; and every file the run wrote or removed, every artifact it
\* uploaded and every label it created carries that one name.
C13_OneArtifactName ==
  \A r \in Runs :
    LET s == run[r] IN
    /\ s.nameCalls <= 1
    /\ s.nameCalls = 0 =>
         /\ s.artifactName = "" /\ s.gitCalls = 0 /\ s.messages = <<>>
         /\ NoWrites(r) /\ NoSignalEffects(r)
    /\ s.nameCalls = 1 => s.artifactName \in Names
    /\ Listed(r) => s.nameCalls = 1
    /\ s.written \subseteq TempFilesOf(s.artifactName)
    /\ s.removed \subseteq TempFilesOf(s.artifactName)
    /\ \A a \in artifacts : a.by = r =>
         /\ a.name = s.artifactName
         /\ \A i \in DOMAIN a.files :
              (\E n \in Names : a.files[i] \in TempFilesOf(n))
                => a.files[i] \in TempFilesOf(s.artifactName)
    /\ \A l \in labels : l.by = r => l.name = s.artifactName

C13_Witness ==
  \E r \in Runs :
    /\ Done(r) /\ run[r].nameCalls = 1
    /\ run[r].written = TempFilesOf(run[r].artifactName)
    /\ \E a \in artifacts : a.by = r
    /\ \E l \in labels : l.by = r

\* C14: every label on the server repository was created by a run that had
\* before uploaded an artifact under the same name.
C14_LabelOnlyAfterUpload ==
  \A l \in labels : \E a \in artifacts : a.by = l.by /\ a.name = l.name

ReportedChanges(r) ==
  \E i \in DOMAIN run[r].messages :
    run[r].messages[i] = "Changes detected. A commit will be pushed"

HasLabel(r) == \E l \in labels : l.by = r /\ l.name = run[r].artifactName

\* C15 as stated: a run with a non-empty filtered change set that has returned,
\* or that has reported "Changes detected", has created its label.
C15_ReturnedImpliesLabel ==
  \A r \in Runs :
    /\ (Returned(r) /\ Listed(r) /\ FilteredSet(r) /= {}) => HasLabel(r)
    /\ ReportedChanges(r) => HasLabel(r)

\* C15 amended: such a run has created its label, unless its label creation
\* failed and hasExpired answered true.
C15_ReturnedImpliesLabelOrExpired ==
  \A r \in Runs :
    ((Returned(r) /\ Listed(r) /\ FilteredSet(r) /= {}) \/ ReportedChanges(r))
      => \/ HasLabel(r) /\ run[r].labelCreated
         \/ LabelFailed(r) /\ run[r].hasExpired = Some(TRUE) /\ ~HasLabel(r)

C15_Witness ==
  \E r \in Runs :
    /\ Returned(r) /\ FilteredSet(r) /= {} /\ ReportedChanges(r)
    /\ run[r].hasExpired = Some(TRUE) /\ ~HasLabel(r)

\* C16: a run whose change set is empty, or empty after the filter, never
\* writes the metadata file or the manifest: the working directory stays as
\* it was.
C16_NoChangeNoWrites ==
  \A r \in Runs :
    (Listed(r) /\ FilteredSet(r) = {})
      => NoWrites(r) /\ run[r].written = {} /\ disk = <<>>

\* run r is in createLabel (lines 244-261) or past it
AtOrPastCredential(r) ==
  run[r].pc \in {"createToken", "createLabel", "catch", "revoke", "report"}
  \/ run[r].tokenCalls > 0

OwnTempOnDisk(r) == TempFilesOf(run[r].artifactName) \cap DOMAIN disk

\* C17: unless its upload failed, a run that has terminated has left neither
\* temp file on disk, whatever happened after the upload; and neither exists
\* from the moment the credential is requested.
C17_TempFilesGoneBeforeCredential ==
  \A r \in Runs :
    ~UploadFailed(r) =>
      /\ Done(r) => OwnTempOnDisk(r) = {}
      /\ AtOrPastCredential(r) =>
           /\ OwnTempOnDisk(r) = {}
           /\ run[r].written /= {} /\ run[r].removed = run[r].written

C17_Witness ==
  \E r \in Runs :
    /\ Threw(r, "githubAppToken.create")
    /\ run[r].uploaded
    /\ run[r].written = TempFilesOf(run[r].artifactName)
    /\ OwnTempOnDisk(r) = {}

\* the filtered root-relative paths of run r
FilteredPaths(r) ==
  IF Len(inputs[r].files) = 0 THEN run[r].fixedFiles ELSE AllowedChanged(r)

\* the text holding each path of s on a line of its own
RECURSIVE LinesText(_)
LinesText(s) == IF s = <<>> THEN "" ELSE Head(s) \o "\n" \o LinesText(Tail(s))

\* join(rootDir, p) for every filtered path p, then the two temp files
ExpectedBundle(r) ==
  [i \in 1..Len(FilteredPaths(r)) |->
     IF inputs[r].rootDir = "" THEN FilteredPaths(r)[i]
     ELSE inputs[r].rootDir \o "/" \o FilteredPaths(r)[i]]
    \o <<run[r].artifactName \o ".json", run[r].artifactName \o "_files.txt">>

\* C18: when uploadArtifact is called the filtered change set is not empty,
\* both temp files exist, the manifest holds the filtered root-relative paths
\* one per line, and the files handed over are join(rootDir, p) for every
\* filtered path p followed by the metadata file and the manifest.
C18_UploadBundle ==
  \A r \in Runs :
    /\ run[r].pc = "uploadArtifact" =>
         /\ FilteredPaths(r) /= <<>>
         /\ TempFilesOf(run[r].artifactName) \subseteq DOMAIN disk
         /\ disk[run[r].artifactName \o "_files.txt"] = LinesText(FilteredPaths(r))
         /\ UploadList(run[r]) = ExpectedBundle(r)
    /\ \A a \in artifacts : a.by = r => a.files = ExpectedBundle(r)
    /\ (Filtered(r) /\ FilteredPaths(r) /= <<>>) => run[r].uploadCalls > 0
                                                   \/ run[r].pc \in {"createMetadataFile", "writeManifest", "uploadArtifact"}

C18_Witness ==
  \E r \in Runs :
    /\ run[r].pc = "uploadArtifact"
    /\ inputs[r].rootDir /= ""
    /\ Len(FilteredPaths(r)) > 1
    /\ Len(inputs[r].files) > 0

\* C19: no run writes the metadata file more than once.
C19_MetadataWrittenOnce ==
  \A r \in Runs : run[r].metadataWrites <= 1

\* r and q are two runs that were given different names
DistinctNames(r, q) ==
  /\ r /= q
  /\ run[r].nameCalls = 1 /\ run[q].nameCalls = 1
  /\ run[r].artifactName /= run[q].artifactName

\* the temp files, of whatever name, among the files of a sequence
TempFilesIn(fs) ==
  {fs[i] : i \in DOMAIN fs} \cap UNION {TempFilesOf(n) : n \in Names}

\* run r writes and removes only its own temp files, never one that q wrote,
\* revokes only its own token, and its labels are its own
OwnFilesTokenLabel(r, q) ==
  /\ run[r].written \subseteq TempFilesOf(run[r].artifactName)
  /\ run[r].removed \subseteq TempFilesOf(run[r].artifactName)
  /\ run[r].written \cap run[q].written = {}
  /\ run[r].removed \cap run[q].written = {}
  /\ \A f \in run[r].written \cap DOMAIN disk :
       f = MetadataFile(run[r].artifactName) => disk[f].context = r
  /\ IsSome(run[r].token) => run[r].token[1][1] = r
  /\ \A i \in DOMAIN run[r].revoked : run[r].revoked[i] = run[r].token[1]
  /\ \A l \in labels : l.by = r => l.name = run[r].artifactName
  /\ \A l, m \in labels : l.by = r /\ m.by = q => l.name /= m.name

\* the temp files run r hands to uploadArtifact are its own
UploadsOwnTempFiles(r) ==
  /\ run[r].pc = "uploadArtifact" =>
       TempFilesIn(UploadList(run[r])) \subseteq TempFilesOf(run[r].artifactName)
  /\ \A a \in artifacts : a.by = r =>
       TempFilesIn(a.files) \subseteq TempFilesOf(run[r].artifactName)

\* C20: of two concurrent runs in one working directory that were given
\* different names, each writes, uploads and removes only temp files of its own
\* name, revokes only its own token and creates a label only under its own
\* name; neither removes or overwrites a temp file of the other, and the
\* labels do not collide.
C20_RunsIsolated ==
  \A r, q \in Runs :
    DistinctNames(r, q) => OwnFilesTokenLabel(r, q) /\ UploadsOwnTempFiles(r)

\* the part of C20 that is not about uploads; it holds under SpecConc
RunsIsolatedButUploads ==
  \A r, q \in Runs : DistinctNames(r, q) => OwnFilesTokenLabel(r, q)

====
